---- MODULE Spec2Model ----
(***************************************************************************)
(* A model of redismultiwrite.RedisMultiWrite: a proxy in front of one     *)
(* local (primary) redis connection and a list of remote (secondary)       *)
(* connections.  A replicated call runs _attempt once per connection, the  *)
(* local one and every remote one in the proxy's GreenPool, returns the    *)
(* local outcome and waits for every remote greenthread before it returns. *)
(*                                                                         *)
(* Connections are the StrictRedisMock of the tests, generalised: every    *)
(* invocation of an operation either applies it and replies, or raises     *)
(* redis.ConnectionError, redis.RedisError or some other Exception.        *)
(* Python values are written as strings ("True", "None", "value").         *)
(***************************************************************************)
EXTENDS Integers, Sequences, FiniteSets, TLC

\* Bound of the model: the largest number of remote connections.
MaxRemote == 2

\* Bounds of the runs with a small pool: the largest pool_size, and the
\* largest number of attempts that the calls in progress can ask for.
MaxPool == 2
MaxAttempts == 4

\* The default of the constructor's retries parameter; budgets 1..3 are run.
DefaultRetries == 3

\* eventlet's GreenPool() default size, used when pool_size is not given.
DefaultPoolSize == 1000

VARIABLES
    remote,      \* self.remote: the number of remote connections (1..remote)
    retries,     \* self.retries
    pool_size,   \* the size of self.pool
    free,        \* self.pool: free slots of the GreenPool
    spawned,     \* number of greenthreads the pool has spawned so far
    pc,          \* pc[c]: where caller c is in its call
    call,        \* call[c]: the method name of the call and its request: the
                 \* redis operation and its arguments, or a list of commands
    idx,         \* idx[c]: next connection to spawn / next pile entry to wait on
    pend,        \* pend[c]: the outcome of ret.wait() held during the finally
    result,      \* result[c]: what the caller got (a value or an exception)
    task,        \* task[c][d]: the _attempt of call c on connection d
    attemptLog,  \* attemptLog[c][d]: outcome of every invocation c made on d
    callstack,   \* callstack[d]: StrictRedisMock.callstack, operations applied
    warns,       \* warns[d]: log.warn('Connectivity issue with '+host) entries
    excs,        \* excs[d]: log.exception('Redis exception with '+host) entries
    errors,      \* log.error(e.message) entries of _run_everywhere
    sent,        \* sent[c][d]: the request of every invocation c made on d
    active       \* the callers (greenthreads) that call the proxy

vars == <<remote, retries, pool_size, free, spawned, pc, call, idx, pend,
          result, task, attemptLog, callstack, warns, excs, errors, sent,
          active>>

config == <<remote, retries, pool_size, active>>
logs == <<warns, excs, errors>>

----------------------------------------------------------------------------
\* Connections.  0 is self.local, 1..remote are self.remote in list order.

AllDest == 0..MaxRemote
Dest == 0..remote
Remotes == 1..remote
\* The callers that may use the proxy; active holds those that do.
CallerIds == {1, 2}

HostNames == <<"local", "remote1", "remote2", "remote3", "remote4">>

\* conn.connection_pool.connection_kwargs.get('host', '[Unknown]')
Host(d) == HostNames[d + 1]

\* An outcome of an invocation, of an _attempt or of a call.
Value(v) == [kind |-> "value", val |-> v, host |-> ""]
Raise(cls, h) == [kind |-> cls, val |-> "", host |-> h]
NoOutcome == [kind |-> "none", val |-> "", host |-> ""]

\* Methods of the connection class (StrictRedisMock) and their replies.
\* "pipeline" stands for a whole batch, pipeline() to execute(): the mock's
\* execute() returns None, a redis pipeline the ordered list of its results.
LocalMethods == {"get", "delete", "set", "setex", "expire"}

Reply(op) ==
    CASE op = "get" -> {"value", "None"}
      [] op = "delete" -> {"True", "False"}
      [] op = "set" -> {"True"}
      [] op = "setex" -> {"True"}
      [] op = "expire" -> {"True", "False"}
      [] op = "pipeline" -> {"None", "results"}

\* The arguments the callers pass to an operation, those of the tests:
\* get('good'), delete('good'), set('good', 'value'),
\* setex('good', 10, 'value'), expire('good', 10).
OpArgs(op) ==
    CASE op = "get" -> <<"good">>
      [] op = "delete" -> <<"good">>
      [] op = "set" -> <<"good", "value">>
      [] op = "setex" -> <<"good", "10", "value">>
      [] op = "expire" -> <<"good", "10">>

\* What one invocation of op on a connection can do.
DestOutcomes(op) ==
    {Value(v) : v \in Reply(op)}
        \cup {Raise("ConnectionError", ""), Raise("RedisError", ""),
              Raise("Exception", "")}

\* Python's bool() on the values of the model.
Bool(v) == IF v \in {"False", "None", "0", ""} THEN "False" ELSE "True"

----------------------------------------------------------------------------
\* The proxy's own methods and attribute lookup.

ProxyMethods ==
    {"delete_everywhere", "set_everywhere", "setex_everywhere",
     "expire_everywhere"}

EverywhereOp(name) ==
    CASE name = "delete_everywhere" -> "delete"
      [] name = "set_everywhere" -> "set"
      [] name = "setex_everywhere" -> "setex"
      [] name = "expire_everywhere" -> "expire"

\* Names a caller may ask the proxy for.
Names == ProxyMethods \cup LocalMethods \cup {"test", "foo_everywhere"}

\* Attribute lookup on the proxy: its own methods first, then __getattr__,
\* which is getattr(self.local, name).
Resolve(name) ==
    IF name \in ProxyMethods THEN "everywhere"
    ELSE IF name \in LocalMethods THEN "local"
    ELSE "missing"

\* delete_everywhere wraps the result in bool(); the others return it as is.
Wrap(name, o) ==
    IF name = "delete_everywhere" /\ o.kind = "value"
    THEN Value(Bool(o.val))
    ELSE o

----------------------------------------------------------------------------
\* _attempt.

NoTask == [pc |-> "none", i |-> 0, last |-> "None", out |-> NoOutcome]
NewTask == [pc |-> "loop", i |-> 0, last |-> "None", out |-> NoOutcome]

\* Mutant: one try more than the budget, range(self.retries + 1).
LoopBound_plus(r) == r + 1

\* for i in range(self.retries)
LoopBound(r) == r

\* Mutant: the RedisError clause retries like the ConnectionError clause.
Handler_retryAll(kind) ==
    CASE kind = "value" -> "return"
      [] kind = "ConnectionError" -> "retry"
      [] kind = "RedisError" -> "retry"
      [] OTHER -> "propagate"

\* Mutant: a successful invocation does not leave the loop.
Handler_noReturn(kind) ==
    CASE kind = "value" -> "retry"
      [] kind = "ConnectionError" -> "retry"
      [] kind = "RedisError" -> "reraise"
      [] OTHER -> "propagate"

\* Which clause of _attempt's try statement takes an invocation's outcome.
Handler(kind) ==
    CASE kind = "value" -> "return"
      [] kind = "ConnectionError" -> "retry"
      [] kind = "RedisError" -> "reraise"
      [] OTHER -> "propagate"

\* Mutant: the last connection error is raised again as it is.
Exhausted_last(last, d) == Raise(last, "")

\* raise TooManyRetries(last_connection_error, host); the constructor reads
\* exc.message.
Exhausted(last, d) ==
    IF last = "None" THEN Raise("AttributeError", "")
    ELSE Raise("TooManyRetries", Host(d))

\* Mutant: a failed try is not logged.
LogWarn_silent(w, d, h) == w

\* self.log.warn('Connectivity issue with '+host) of the ConnectionError clause.
LogWarn(w, d, h) == IF h = "retry" THEN [w EXCEPT ![d] = @ + 1] ELSE w

\* self.log.exception('Redis exception with '+host) of the RedisError clause.
LogException(e, d, h) == IF h = "reraise" THEN [e EXCEPT ![d] = @ + 1] ELSE e

\* The greenthreads of the pool run only when the running caller blocks:
\* pool.spawn with a free slot does not switch.
CallerHoldsCpu == \E c \in active : pc[c] = "spawn" /\ free > 0

Pooled(c) == pc[c] # "inline"

\* Mutant: a finished greenthread keeps its slot.
Release_never(c) == free

\* A finished _attempt that ran in the pool gives its slot back.
Release(c) == IF Pooled(c) THEN free + 1 ELSE free

\* Mutant: one counter for the whole call, the failed tries on all the
\* connections together.
Used_shared(c, d) ==
    Cardinality({p \in AllDest \X (1..DefaultRetries) : p[2] <= task[c][p[1]].i})

\* The loop variable i of the _attempt of call c on connection d: the tries
\* it has used.
Used(c, d) == task[c][d].i

\* Mutant: the ConnectionError clause ends with greenthread.sleep(0).
AfterRetry_yield(last) == IF last THEN "sleep_exhausted" ELSE "sleep_retry"

\* Where the ConnectionError clause leaves the task: the loop goes on to its
\* next iteration at once, or it is over and greenthread.sleep(0) is next.
AfterRetry(last) == IF last THEN "sleep_exhausted" ELSE "loop"

\* Mutant: the remote connections are handed the key only.
Request_keyOnly(c, d) ==
    [op |-> call[c].op,
     args |-> IF d = 0 THEN call[c].args ELSE SubSeq(call[c].args, 1, 1),
     cmds |-> call[c].cmds]

\* What _attempt invokes on connection d for call c: the op and args that
\* _run_everywhere handed to it.
Request(c, d) == [op |-> call[c].op, args |-> call[c].args,
                  cmds |-> call[c].cmds]

\* A batch on one connection: open a pipeline, queue every command in the
\* given order, execute.
BatchApplied(cmds) ==
    <<"pipeline">> \o [i \in 1..Len(cmds) |-> cmds[i].op] \o <<"execute">>

\* Mutant: the commands queued on the pipeline object are not recorded.
Applied_opOnly(req) == <<req.op>>

\* What a connection that applies a request appends to its callstack: every
\* method of the mock appends its own name, pipeline() returns the mock itself.
Applied(req) == IF req.op = "pipeline" THEN BatchApplied(req.cmds) ELSE <<req.op>>

\* One iteration of the loop: getattr(conn, op)(*args) and its handlers, the
\* connection answering with one of outs.
TryFrom(c, d, outs) ==
    /\ ~CallerHoldsCpu
    /\ task[c][d].pc = "loop"
    /\ Used(c, d) < LoopBound(retries)
    /\ \E o \in outs :
        LET t == task[c][d]
            h == Handler(o.kind)
            last == Used(c, d) + 1 >= LoopBound(retries)
        IN
        /\ attemptLog' = [attemptLog EXCEPT ![c][d] = Append(@, o)]
        /\ sent' = [sent EXCEPT ![c][d] = Append(@, Request(c, d))]
        /\ callstack' = IF o.kind = "value"
                        THEN [callstack EXCEPT ![d] = @ \o Applied(Request(c, d))]
                        ELSE callstack
        /\ warns' = LogWarn(warns, d, h)
        /\ excs' = LogException(excs, d, h)
        /\ task' = [task EXCEPT ![c][d] =
                CASE h = "return" -> [t EXCEPT !.pc = "done", !.out = o]
                  [] h = "retry" ->
                        [t EXCEPT !.i = @ + 1, !.last = o.kind,
                                  !.pc = AfterRetry(last)]
                  [] h = "reraise" -> [t EXCEPT !.pc = "sleep_reraise", !.out = o]
                  [] OTHER -> [t EXCEPT !.pc = "done", !.out = o]]
        /\ free' = IF h \in {"return", "propagate"} THEN Release(c) ELSE free
    /\ UNCHANGED <<config, spawned, pc, call, idx, pend, result, errors>>

\* A try on a connection that may fail in every way.
Try(c, d) == TryFrom(c, d, DestOutcomes(call[c].op))

\* After greenthread.sleep(0): raise e, or raise TooManyRetries(...).
Resume(c, d) ==
    /\ ~CallerHoldsCpu
    /\ task[c][d].pc \in {"sleep_reraise", "sleep_exhausted"}
    /\ task' = [task EXCEPT ![c][d] =
            IF task[c][d].pc = "sleep_reraise"
            THEN [task[c][d] EXCEPT !.pc = "done"]
            ELSE [task[c][d] EXCEPT !.pc = "done",
                                    !.out = Exhausted(task[c][d].last, d)]]
    /\ free' = Release(c)
    /\ UNCHANGED <<config, spawned, pc, call, idx, pend, result, attemptLog, sent,
                   callstack, logs>>

----------------------------------------------------------------------------
\* Calls.

\* Mutant: the local connection is asked before the name is found missing.
CallMissing_contact(c) ==
    /\ pc[c] = "idle"
    /\ \E name \in Names :
        /\ Resolve(name) = "missing"
        /\ call' = [call EXCEPT ![c] = [name |-> name, op |-> "", args |-> <<>>, cmds |-> <<>>]]
        /\ result' = [result EXCEPT ![c] = Raise("AttributeError", "")]
    /\ attemptLog' = [attemptLog EXCEPT ![c][0] =
            Append(@, Raise("AttributeError", ""))]
    /\ pc' = [pc EXCEPT ![c] = "done"]
    /\ UNCHANGED <<config, free, spawned, idx, pend, task, callstack, logs,
                   sent>>

\* A name that neither the proxy nor self.local has: AttributeError.
CallMissing(c) ==
    /\ pc[c] = "idle"
    /\ \E name \in Names :
        /\ Resolve(name) = "missing"
        /\ call' = [call EXCEPT ![c] = [name |-> name, op |-> "", args |-> <<>>, cmds |-> <<>>]]
        /\ result' = [result EXCEPT ![c] = Raise("AttributeError", "")]
    /\ pc' = [pc EXCEPT ![c] = "done"]
    /\ UNCHANGED <<config, free, spawned, idx, pend, task, attemptLog, sent,
                   callstack, logs>>

\* Mutant: a method of self.local is also run on the last remote.
CallLocal_mirror(c) ==
    /\ pc[c] = "idle"
    /\ \E name \in Names :
        /\ Resolve(name) = "local"
        /\ \E o \in DestOutcomes(name) :
            /\ call' = [call EXCEPT ![c] =
                    [name |-> name, op |-> name, args |-> OpArgs(name),
                     cmds |-> <<>>]]
            /\ attemptLog' = [attemptLog EXCEPT ![c][0] = Append(@, o),
                                                ![c][remote] = Append(@, o)]
            /\ sent' = [sent EXCEPT ![c][0] =
                    Append(@, [op |-> name, args |-> OpArgs(name),
                               cmds |-> <<>>])]
            /\ callstack' = IF o.kind = "value"
                            THEN [callstack EXCEPT ![0] = Append(@, name)]
                            ELSE callstack
            /\ result' = [result EXCEPT ![c] = o]
    /\ pc' = [pc EXCEPT ![c] = "done"]
    /\ UNCHANGED <<config, free, spawned, idx, pend, task, logs>>

\* A method of self.local, called once on self.local in the caller.
CallLocal(c) ==
    /\ pc[c] = "idle"
    /\ \E name \in Names :
        /\ Resolve(name) = "local"
        /\ \E o \in DestOutcomes(name) :
            /\ call' = [call EXCEPT ![c] =
                    [name |-> name, op |-> name, args |-> OpArgs(name),
                     cmds |-> <<>>]]
            /\ attemptLog' = [attemptLog EXCEPT ![c][0] = Append(@, o)]
            /\ sent' = [sent EXCEPT ![c][0] =
                    Append(@, [op |-> name, args |-> OpArgs(name),
                               cmds |-> <<>>])]
            /\ callstack' = IF o.kind = "value"
                            THEN [callstack EXCEPT ![0] = Append(@, name)]
                            ELSE callstack
            /\ result' = [result EXCEPT ![c] = o]
    /\ pc' = [pc EXCEPT ![c] = "done"]
    /\ UNCHANGED <<config, free, spawned, idx, pend, task, logs>>

\* Mutant: the local attempt goes through the pool also without remotes.
Entry_pool(r) == "spawn"

\* Mutant: the request is run on self.local only, remotes or not.
Entry_localOnly(r) == "inline"

\* Where _run_everywhere goes first: without remotes it runs _attempt itself.
Entry(r) == IF r = 0 THEN "inline" ELSE "spawn"

\* delete_everywhere, set_everywhere, setex_everywhere, expire_everywhere:
\* the start of _run_everywhere.
CallEverywhere(c) ==
    /\ pc[c] = "idle"
    /\ \E name \in Names :
        /\ Resolve(name) = "everywhere"
        /\ call' = [call EXCEPT ![c] =
                [name |-> name, op |-> EverywhereOp(name),
                 args |-> OpArgs(EverywhereOp(name)), cmds |-> <<>>]]
    /\ pc' = [pc EXCEPT ![c] = Entry(remote)]
    /\ task' = IF Entry(remote) = "inline"
               THEN [task EXCEPT ![c][0] = NewTask]
               ELSE task
    /\ idx' = [idx EXCEPT ![c] = 0]
    /\ UNCHANGED <<config, free, spawned, pend, result, attemptLog, sent, callstack,
                   logs>>

\* return self._attempt(self.local, op, args)
InlineReturn(c) ==
    /\ pc[c] = "inline"
    /\ task[c][0].pc = "done"
    /\ result' = [result EXCEPT ![c] = Wrap(call[c].name, task[c][0].out)]
    /\ pc' = [pc EXCEPT ![c] = "done"]
    /\ UNCHANGED <<config, free, spawned, call, idx, pend, task, attemptLog, sent,
                   callstack, logs>>

\* Mutant: spawn never waits for a slot.
SlotFree_always(f) == TRUE

\* GreenPool.spawn goes on when the pool's semaphore has a slot (sem.acquire).
SlotFree(f) == f > 0

\* self.pool.spawn(...) for self.local, then pile.spawn(...) for each remote;
\* a spawn waits for a free slot of the pool.
Spawn(c) ==
    /\ pc[c] = "spawn"
    /\ SlotFree(free)
    /\ free' = free - 1
    /\ spawned' = spawned + 1
    /\ task' = [task EXCEPT ![c][idx[c]] = NewTask]
    /\ idx' = [idx EXCEPT ![c] = @ + 1]
    /\ pc' = [pc EXCEPT ![c] = IF idx[c] = remote THEN "wait" ELSE "spawn"]
    /\ UNCHANGED <<config, call, pend, result, attemptLog, sent, callstack, logs>>

\* Mutant: ret is kept on the proxy and the latest call overwrites it.
RetOutcome_shared(c) ==
    task[CHOOSE x \in active : \A y \in active : x >= y][0].out

\* ret: the greenthread of this call's own _attempt on self.local.
RetOutcome(c) == task[c][0].out

\* Mutant: when ret.wait() raises, the greenthreads of the pile that still
\* run are killed.
WaitRet_kill(c) ==
    LET Running(d) == task[c][d].pc \in {"loop", "sleep_reraise", "sleep_exhausted"}
        failed == RetOutcome(c).kind # "value"
    IN
    /\ pc[c] = "wait"
    /\ task[c][0].pc = "done"
    /\ pend' = [pend EXCEPT ![c] = RetOutcome(c)]
    /\ errors' = IF RetOutcome(c).kind = "TooManyRetries"
                 THEN errors + 1 ELSE errors
    /\ task' = [task EXCEPT ![c] = [d \in AllDest |->
            IF failed /\ Running(d)
            THEN [task[c][d] EXCEPT !.pc = "done",
                                    !.out = Raise("GreenletExit", "")]
            ELSE task[c][d]]]
    /\ free' = IF failed
               THEN free + Cardinality({d \in AllDest : Running(d)})
               ELSE free
    /\ idx' = [idx EXCEPT ![c] = 1]
    /\ pc' = [pc EXCEPT ![c] = "drain"]
    /\ UNCHANGED <<config, spawned, call, result, attemptLog, sent, callstack,
                   warns, excs>>

\* return ret.wait(), with its except TooManyRetries clause.
WaitRet(c) ==
    /\ pc[c] = "wait"
    /\ task[c][0].pc = "done"
    /\ pend' = [pend EXCEPT ![c] = RetOutcome(c)]
    /\ errors' = IF RetOutcome(c).kind = "TooManyRetries"
                 THEN errors + 1 ELSE errors
    /\ idx' = [idx EXCEPT ![c] = 1]
    /\ pc' = [pc EXCEPT ![c] = "drain"]
    /\ UNCHANGED <<config, free, spawned, call, result, task, attemptLog, sent,
                   callstack, warns, excs>>

\* Mutant: an exception of a remote greenthread leaves _wait_pile.
DrainOutcome_raises(p, o) == IF o.kind # "value" THEN o ELSE p

\* What leaves the finally clause when pile.next() ended with outcome o
\* while p was pending: values are dropped, exceptions are passed over.
DrainOutcome(p, o) == p

\* Mutant: the try statement is outside the loop, the first exception ends it.
DrainContinues_break(o) == o.kind = "value"

\* Whether _wait_pile goes on to the next pile.next() after outcome o.
DrainContinues(o) == TRUE

\* Mutant: the except clause of _wait_pile logs the exception it passes over.
DrainLog_error(e, o) == IF o.kind # "value" THEN e + 1 ELSE e

\* What _wait_pile logs for outcome o of pile.next(): its except clause is
\* a bare pass.
DrainLog(e, o) == e

\* One pile.next() of _wait_pile: waits for the oldest unread greenthread.
Drain(c) ==
    /\ pc[c] = "drain"
    /\ idx[c] <= remote
    /\ task[c][idx[c]].pc = "done"
    /\ pend' = [pend EXCEPT ![c] = DrainOutcome(@, task[c][idx[c]].out)]
    /\ idx' = [idx EXCEPT ![c] =
            IF DrainContinues(task[c][idx[c]].out) THEN @ + 1 ELSE remote + 1]
    /\ errors' = DrainLog(errors, task[c][idx[c]].out)
    /\ UNCHANGED <<config, free, spawned, pc, call, result, task, attemptLog, sent,
                   callstack, warns, excs>>

\* StopIteration ends _wait_pile; the pending value is returned or the
\* pending exception raised.
Return(c) ==
    /\ pc[c] = "drain"
    /\ idx[c] > remote
    /\ result' = [result EXCEPT ![c] = Wrap(call[c].name, pend[c])]
    /\ pc' = [pc EXCEPT ![c] = "done"]
    /\ UNCHANGED <<config, free, spawned, call, idx, pend, task, attemptLog, sent,
                   callstack, logs>>

----------------------------------------------------------------------------
\* The generic surface of the proxy that the tests call: run_everywhere(op,
\* args), <op>_everywhere for every operation of self.local, and
\* pipeline_everywhere(commands).

\* One command of a batch, as the tests write it: (op, args).
Command(op) == [op |-> op, args |-> OpArgs(op)]

\* The command lists of the callers: the one of test_pipeline_everywhere and
\* the same commands the other way round.
Batches ==
    {<<Command("set"), Command("delete")>>,
     <<Command("delete"), Command("set")>>}

\* The names of the generic surface that the callers use.
GenericNames == {"run_everywhere", "get_everywhere", "pipeline_everywhere"}

\* Lookup on the generic proxy: run_everywhere and pipeline_everywhere are
\* its own methods, <op>_everywhere exists when self.local has op.
ResolveGeneric(name) ==
    IF name \in {"run_everywhere", "pipeline_everywhere"} THEN "everywhere"
    ELSE IF name = "get_everywhere" /\ "get" \in LocalMethods THEN "everywhere"
    ELSE Resolve(name)

\* The coordinator starts on a request, as _run_everywhere does.
Begin(c, name, op, args, cmds) ==
    /\ pc[c] = "idle"
    /\ call' = [call EXCEPT ![c] =
            [name |-> name, op |-> op, args |-> args, cmds |-> cmds]]
    /\ pc' = [pc EXCEPT ![c] = Entry(remote)]
    /\ task' = IF Entry(remote) = "inline"
               THEN [task EXCEPT ![c][0] = NewTask]
               ELSE task
    /\ idx' = [idx EXCEPT ![c] = 0]
    /\ UNCHANGED <<config, free, spawned, pend, result, attemptLog, sent, callstack,
                   logs>>

\* The operations the callers hand to run_everywhere: one that has no
\* method of its own on the proxy and one that has.
RunOps == {"get", "set"}

\* run_everywhere(op, args) for an operation of self.local.
CallRunEverywhere(c) ==
    \E op \in RunOps \cap LocalMethods :
        Begin(c, "run_everywhere", op, OpArgs(op), <<>>)

\* <op>_everywhere(args) for an operation that has no method of its own
\* on the proxy: get_everywhere.
CallOpEverywhere(c) ==
    /\ ResolveGeneric("get_everywhere") = "everywhere"
    /\ Begin(c, "get_everywhere", "get", OpArgs("get"), <<>>)

\* pipeline_everywhere(commands).
CallPipelineEverywhere(c) ==
    \E cmds \in Batches : Begin(c, "pipeline_everywhere", "pipeline", <<>>, cmds)

----------------------------------------------------------------------------

\* A proxy that has not been called yet.
Fresh ==
    /\ free = pool_size
    /\ spawned = 0
    /\ pc = [c \in CallerIds |-> "idle"]
    /\ call = [c \in CallerIds |->
            [name |-> "", op |-> "", args |-> <<>>, cmds |-> <<>>]]
    /\ idx = [c \in CallerIds |-> 0]
    /\ pend = [c \in CallerIds |-> NoOutcome]
    /\ result = [c \in CallerIds |-> NoOutcome]
    /\ task = [c \in CallerIds |-> [d \in AllDest |-> NoTask]]
    /\ attemptLog = [c \in CallerIds |-> [d \in AllDest |-> <<>>]]
    /\ sent = [c \in CallerIds |-> [d \in AllDest |-> <<>>]]
    /\ callstack = [d \in AllDest |-> <<>>]
    /\ warns = [d \in AllDest |-> 0]
    /\ excs = [d \in AllDest |-> 0]
    /\ errors = 0

\* RedisMultiWrite(local, remote, retries): the pool has its default size.
\* One caller uses the proxy.
Init ==
    /\ active = {1}
    /\ remote \in 0..MaxRemote
    /\ retries \in 1..DefaultRetries
    /\ pool_size = DefaultPoolSize
    /\ Fresh

Next ==
    \E c \in active :
        \/ CallMissing(c)
        \/ CallLocal(c)
        \/ CallEverywhere(c)
        \/ InlineReturn(c)
        \/ Spawn(c)
        \/ WaitRet(c)
        \/ Drain(c)
        \/ Return(c)
        \/ \E d \in Dest : Try(c, d)
        \/ \E d \in Dest : Resume(c, d)

Spec == Init /\ [][Next]_vars

\* A caller of the generic surface.
NextGeneric ==
    \E c \in active :
        \/ CallRunEverywhere(c)
        \/ CallOpEverywhere(c)
        \/ InlineReturn(c)
        \/ Spawn(c)
        \/ WaitRet(c)
        \/ Drain(c)
        \/ Return(c)
        \/ \E d \in Dest : Try(c, d)
        \/ \E d \in Dest : Resume(c, d)

SpecGeneric == Init /\ [][NextGeneric]_vars

\* A caller of pipeline_everywhere.
NextPipeline ==
    \E c \in active :
        \/ CallPipelineEverywhere(c)
        \/ InlineReturn(c)
        \/ Spawn(c)
        \/ WaitRet(c)
        \/ Drain(c)
        \/ Return(c)
        \/ \E d \in Dest : Try(c, d)
        \/ \E d \in Dest : Resume(c, d)

SpecPipeline == Init /\ [][NextPipeline]_vars

----------------------------------------------------------------------------
\* A small pool and callers that use the proxy at the same time.

\* RedisMultiWrite(local, remote, retries, pool_size=P) with one caller or
\* two callers.
InitPool ==
    /\ active \in {{1}, {1, 2}}
    /\ remote \in 0..MaxRemote
    /\ Cardinality(active) * (remote + 1) <= MaxAttempts
    /\ retries \in 1..DefaultRetries
    /\ pool_size \in 1..MaxPool
    /\ Fresh

\* The callers call set_everywhere('good', 'value').
PoolNames == {"set_everywhere"}

CallPool(c) ==
    \E name \in PoolNames \cap ProxyMethods :
        Begin(c, name, EverywhereOp(name), OpArgs(EverywhereOp(name)), <<>>)

\* The connections reply, or raise ConnectionError or RedisError.
PoolOutcomes(op) ==
    {o \in DestOutcomes(op) : o.kind \in {"value", "ConnectionError", "RedisError"}}

NextPool ==
    \E c \in active :
        \/ CallPool(c)
        \/ InlineReturn(c)
        \/ Spawn(c)
        \/ WaitRet(c)
        \/ Drain(c)
        \/ Return(c)
        \/ \E d \in Dest : TryFrom(c, d, PoolOutcomes(call[c].op))
        \/ \E d \in Dest : Resume(c, d)

\* The hub of eventlet runs every greenthread that is ready, and every
\* invocation of a connection comes to an end: a step that can be taken is
\* taken.
SpecPool == InitPool /\ [][NextPool]_vars /\ WF_vars(NextPool)

----------------------------------------------------------------------------
\* Vocabulary of the properties.

Done(c) == pc[c] = "done"
Replicated(c) == pc[c] # "idle" /\ Resolve(call[c].name) = "everywhere"
Finished(c, d) == task[c][d].pc = "done"
Log(c, d) == attemptLog[c][d]
AllConn(log) == \A i \in 1..Len(log) : log[i].kind = "ConnectionError"
\* Every try of the finished attempt raised a connectivity failure.
Unreachable(c, d) == Finished(c, d) /\ Log(c, d) # <<>> /\ AllConn(Log(c, d))
\* The first try succeeded.
Healthy(c, d) == Log(c, d) # <<>> /\ Log(c, d)[1].kind = "value"

----------------------------------------------------------------------------
\* C1: when a replicated call (delete_everywhere, set_everywhere,
\* setex_everywhere, expire_everywhere) has returned or raised, what the
\* caller got is exactly the outcome of the _attempt on self.local, whatever
\* the remote attempts gave (a value, TooManyRetries, RedisError, another
\* exception).
C1_PrimaryOutcomeOnly ==
    \A c \in active :
        Done(c) /\ Replicated(c) => result[c] = task[c][0].out

\* A call returned True although one remote ran out of retries and the
\* other replied False.
C1_Witness ==
    /\ Done(1) /\ Replicated(1) /\ remote = 2
    /\ result[1] = Value("True")
    /\ task[1][1].out.kind = "TooManyRetries"
    /\ task[1][2].out = Value("False")

\* C2: when a replicated call has returned or raised, every _attempt it
\* started has finished, whatever the outcome on self.local; none is still
\* running or waiting.
C2_NoAttemptOutlivesCall ==
    \A c \in active :
        Done(c) /\ Replicated(c) =>
            /\ \A d \in Dest : Finished(c, d)
            /\ \A d \in AllDest : task[c][d].pc \in {"none", "done"}

\* The call raised the local RedisError after the first remote failed and
\* the second remote retried and succeeded.
C2_Witness ==
    /\ Done(1) /\ Replicated(1) /\ remote = 2
    /\ result[1].kind = "RedisError"
    /\ task[1][1].out.kind = "Exception"
    /\ Len(Log(1, 2)) = 2 /\ task[1][2].out.kind = "value"

\* C3: if every try on self.local raised a connectivity failure, the
\* replicated call raises TooManyRetries whose host is the local host, with
\* and without remotes and whatever the remotes did.
C3_PrimaryExhaustedRaises ==
    \A c \in active :
        Done(c) /\ Replicated(c) /\ AllConn(Log(c, 0)) =>
            result[c] = Raise("TooManyRetries", Host(0))

\* The local connection failed three times while one remote was healthy and
\* the other unreachable.
C3_Witness ==
    /\ Done(1) /\ Replicated(1) /\ remote = 2 /\ retries = 3
    /\ Len(Log(1, 0)) = 3 /\ AllConn(Log(1, 0))
    /\ Healthy(1, 1) /\ Unreachable(1, 2)
    /\ result[1].kind = "TooManyRetries"

\* C4: a RedisError that is not a ConnectionError, raised by self.local at
\* any try, ends the tries on self.local (there is no invocation after it,
\* even with budget left) and is what the call raises, not TooManyRetries.
C4_StoreErrorNotRetried ==
    \A c \in active :
        Replicated(c) =>
            /\ \A i \in 1..Len(Log(c, 0)) :
                Log(c, 0)[i].kind = "RedisError" => i = Len(Log(c, 0))
            /\ (Done(c) /\ Log(c, 0)[Len(Log(c, 0))].kind = "RedisError")
                    => result[c] = Raise("RedisError", "")

\* The second of three tries on self.local raised RedisError and the call
\* raised it.
C4_Witness ==
    /\ Done(1) /\ Replicated(1) /\ retries = 3 /\ remote = 1
    /\ Len(Log(1, 0)) = 2
    /\ Log(1, 0)[1].kind = "ConnectionError"
    /\ Log(1, 0)[2].kind = "RedisError"
    /\ result[1].kind = "RedisError"

\* C5: with budget retries, a connection is never invoked more than retries
\* times in one call; a success is the last invocation, so k failures and
\* then a success are exactly k + 1 invocations; an attempt ends in
\* TooManyRetries exactly when all of exactly retries invocations raised a
\* connectivity failure.
C5_RetryBudget ==
    \A c \in active :
        Replicated(c) =>
            \A d \in Dest :
                /\ Len(Log(c, d)) <= retries
                /\ \A i \in 1..Len(Log(c, d)) :
                    /\ Log(c, d)[i].kind = "value" => i = Len(Log(c, d))
                    /\ i < Len(Log(c, d)) =>
                            Log(c, d)[i].kind = "ConnectionError"
                /\ (Finished(c, d) /\ Log(c, d)[Len(Log(c, d))].kind = "value")
                        => task[c][d].out = Log(c, d)[Len(Log(c, d))]
                /\ Unreachable(c, d) =>
                        /\ Len(Log(c, d)) = retries
                        /\ task[c][d].out = Raise("TooManyRetries", Host(d))
                /\ task[c][d].out.kind = "TooManyRetries" =>
                        /\ Len(Log(c, d)) = retries
                        /\ AllConn(Log(c, d))

\* With budget 3, a remote failed twice and succeeded at the third try while
\* another remote failed three times and ended in TooManyRetries.
C5_Witness ==
    /\ Done(1) /\ Replicated(1) /\ retries = 3 /\ remote = 2
    /\ Len(Log(1, 1)) = 3 /\ task[1][1].out.kind = "value"
    /\ Len(Log(1, 2)) = 3 /\ task[1][2].out.kind = "TooManyRetries"

\* C6, as stated: without remotes, op_everywhere is the same as calling op
\* on self.local: one invocation, the caller gets that invocation's value or
\* exception, and the pool spawns nothing.
C6_SameAsDirectCall ==
    \A c \in active :
        Done(c) /\ Replicated(c) /\ remote = 0 =>
            /\ Len(Log(c, 0)) = 1
            /\ result[c] = Log(c, 0)[1]
            /\ spawned = 0

\* C6, amended: without remotes the pool spawns nothing; a direct call of op
\* is one invocation whose outcome the caller gets; op_everywhere is the same
\* one invocation and the same outcome (through bool() for
\* delete_everywhere) when the first try does not raise a connectivity
\* failure, and otherwise it goes on to retry: it ends with the outcome of a
\* later try or, after retries connectivity failures, with TooManyRetries for
\* the local host.
C6_SameAsDirectUnlessConnectivity ==
    \A c \in active :
        /\ Done(c) /\ Resolve(call[c].name) = "local" =>
            /\ Len(Log(c, 0)) = 1
            /\ result[c] = Log(c, 0)[1]
        /\ Done(c) /\ Replicated(c) /\ remote = 0 =>
            /\ spawned = 0
            /\ Log(c, 0)[1].kind # "ConnectionError" =>
                /\ Len(Log(c, 0)) = 1
                /\ result[c] = Wrap(call[c].name, Log(c, 0)[1])
            /\ Log(c, 0)[1].kind = "ConnectionError" =>
                /\ retries > 1 => Len(Log(c, 0)) > 1
                /\ result[c] # Log(c, 0)[1]
                /\ AllConn(Log(c, 0)) =>
                    /\ Len(Log(c, 0)) = retries
                    /\ result[c] = Raise("TooManyRetries", Host(0))

\* Without remotes, delete_everywhere raised the RedisError of its only
\* invocation, as a direct delete would.
C6_Witness ==
    /\ Done(1) /\ remote = 0 /\ call[1].name = "delete_everywhere"
    /\ Len(Log(1, 0)) = 1
    /\ result[1] = Raise("RedisError", "")

RECURSIVE SumUpTo(_, _)
SumUpTo(f, n) == IF n < 0 THEN 0 ELSE f[n] + SumUpTo(f, n - 1)

\* Entries written to self.log so far.
LogEntries == SumUpTo(warns, MaxRemote) + SumUpTo(excs, MaxRemote) + errors

UnreachableRemotes(c) == {d \in Remotes : Unreachable(c, d)}

\* A finished replicated call on a healthy local connection with N >= 1
\* remotes, each healthy or unreachable, K < N of them unreachable.
C7_Case(c) ==
    /\ Done(c) /\ Replicated(c) /\ remote >= 1
    /\ Healthy(c, 0)
    /\ \A d \in Remotes : Healthy(c, d) \/ Unreachable(c, d)
    /\ Cardinality(UnreachableRemotes(c)) < remote

C8_AppliedOnce ==
    \A c \in active :
        Replicated(c) =>
            \A d \in Dest :
                /\ Healthy(c, d) =>
                    /\ Len(Log(c, d)) = 1
                    /\ callstack[d] = <<call[c].op>>
                /\ AllConn(Log(c, d)) => callstack[d] = <<>>

\* The local connection and the first remote succeeded at once while the
\* second remote was still retrying; each of the two has applied the
\* operation once.
C8_Witness ==
    /\ Replicated(1) /\ remote = 2 /\ retries = 3
    /\ Healthy(1, 0) /\ Healthy(1, 1)
    /\ task[1][2].pc = "loop" /\ Len(Log(1, 2)) = 2
    /\ callstack[0] = <<"setex">> /\ callstack[1] = <<"setex">>
    /\ callstack[2] = <<>>

\* C9: a call of a method that is not replicated (get, for one) is one
\* invocation on self.local, whose outcome the caller gets without a retry;
\* no remote is invoked, nothing is spawned and nothing is logged.
C9_PassThroughLocalOnly ==
    \A c \in active :
        Done(c) /\ Resolve(call[c].name) = "local" =>
            /\ Len(Log(c, 0)) = 1
            /\ result[c] = Log(c, 0)[1]
            /\ \A d \in AllDest \ {0} : Log(c, d) = <<>> /\ callstack[d] = <<>>
            /\ \A d \in AllDest : task[c][d] = NoTask
            /\ spawned = 0
            /\ LogEntries = 0

\* get returned 'value' on a proxy with two remotes.
C9_Witness ==
    /\ Done(1) /\ call[1].name = "get" /\ remote = 2
    /\ result[1] = Value("value")
    /\ callstack[0] = <<"get">>

\* C10: a call of a name that self.local does not have (test, foo_everywhere)
\* raises AttributeError and no connection, local or remote, has recorded an
\* invocation.
C10_MissingRaisesUncontacted ==
    \A c \in active :
        Done(c) /\ Resolve(call[c].name) = "missing" =>
            /\ result[c] = Raise("AttributeError", "")
            /\ \A d \in AllDest :
                /\ Log(c, d) = <<>>
                /\ callstack[d] = <<>>
                /\ task[c][d] = NoTask
            /\ spawned = 0

\* foo_everywhere raised AttributeError on a proxy with two remotes.
C10_Witness ==
    /\ Done(1) /\ call[1].name = "foo_everywhere" /\ remote = 2
    /\ result[1].kind = "AttributeError"

----------------------------------------------------------------------------
----------------------------------------------------------------------------
----------------------------------------------------------------------------
\* C13: when a replicated call has raised the failure of the attempt on
\* self.local (TooManyRetries, a RedisError or another exception), every
\* remote attempt has run to its own end: it was tried, it finished with the
\* outcome of its own tries, a remote whose first try succeeded applied the
\* operation exactly once, and a remote whose every try raised a connectivity
\* failure was tried retries times and ended in TooManyRetries.
C13_NoCancellation ==
    \A c \in active :
        Done(c) /\ Replicated(c) /\ result[c].kind # "value" =>
            \A d \in Remotes :
                /\ Finished(c, d) /\ Log(c, d) # <<>>
                /\ task[c][d].out.kind \in
                        {"TooManyRetries", Log(c, d)[Len(Log(c, d))].kind}
                /\ Healthy(c, d) =>
                    Len(Log(c, d)) = 1 /\ callstack[d] = <<call[c].op>>
                /\ AllConn(Log(c, d)) =>
                    /\ Len(Log(c, d)) = retries
                    /\ task[c][d].out.kind = "TooManyRetries"

\* self.local used its three tries up and the call raised TooManyRetries;
\* the first remote applied the operation once, the second one was tried
\* three times.
C13_Witness ==
    /\ Done(1) /\ Replicated(1)
    /\ remote = 2 /\ retries = 3
    /\ result[1] = Raise("TooManyRetries", Host(0))
    /\ Healthy(1, 1) /\ callstack[1] = <<call[1].op>>
    /\ Unreachable(1, 2) /\ Len(Log(1, 2)) = 3

----------------------------------------------------------------------------
\* The failed tries (connectivity failures) in the log of one connection.
ConnFailures(log) == Len(SelectSeq(log, LAMBDA o : o.kind = "ConnectionError"))

\* C14: at every moment of a replicated call, in every interleaving of its
\* attempts, the tries on a connection are counted against that connection
\* alone: its attempt has used as many tries as its own log has connectivity
\* failures, it is still in its loop as long as it has failed fewer than
\* retries times and nothing else has ended it, whatever the attempts on the
\* other connections have used up, and it ends in TooManyRetries only after
\* retries connectivity failures of its own.
C14_BudgetPerDestination ==
    \A c \in active :
        Replicated(c) =>
            \A d \in Dest :
                task[c][d].pc # "none" =>
                    /\ task[c][d].i = ConnFailures(Log(c, d))
                    /\ Len(Log(c, d)) <= retries
                    /\ AllConn(Log(c, d)) /\ Len(Log(c, d)) < retries =>
                            task[c][d].pc = "loop"
                    /\ task[c][d].pc = "sleep_exhausted"
                            \/ task[c][d].out.kind = "TooManyRetries" =>
                            ConnFailures(Log(c, d)) = retries

\* The first remote has used up its three tries; the second one failed
\* twice and still had its third try, which succeeded.
C14_Witness ==
    /\ Done(1) /\ Replicated(1)
    /\ remote = 2 /\ retries = 3
    /\ Healthy(1, 0)
    /\ Unreachable(1, 1) /\ task[1][1].out.kind = "TooManyRetries"
    /\ Len(Log(1, 2)) = 3 /\ ConnFailures(Log(1, 2)) = 2
    /\ task[1][2].out.kind = "value"

----------------------------------------------------------------------------
\* The remotes whose attempt ended in an exception.
FailedRemotes(c) ==
    {d \in Remotes : Finished(c, d) /\ task[c][d].out.kind # "value"}

StoreErrors(log) == Len(SelectSeq(log, LAMBDA o : o.kind = "RedisError"))

----------------------------------------------------------------------------
\* The positions of an _attempt inside greenthread.sleep(0).
Sleeping == {"sleep_reraise", "sleep_exhausted", "sleep_retry"}

\* A step in which the _attempt of call c on connection d makes a try that
\* raises an exception of class cls.
FailedTry(c, d, cls) ==
    /\ task[c][d].pc = "loop"
    /\ Len(attemptLog'[c][d]) = Len(attemptLog[c][d]) + 1
    /\ attemptLog'[c][d][Len(attemptLog'[c][d])].kind = cls

----------------------------------------------------------------------------
\* The attempts in flight: started and not yet ended.
Running(c, d) == task[c][d].pc \in {"loop"} \cup Sleeping

\* All of them, and those that run in a greenthread of the pool.
InFlight == {p \in active \X Dest : Running(p[1], p[2])}
PooledInFlight == {p \in InFlight : Pooled(p[1])}

\* C17, as stated: with a pool of capacity pool_size shared by all the calls
\* on one proxy, the attempts in flight at the same time, counted over all
\* the calls in progress, are never more than pool_size.
C17_PoolBoundsAllAttempts == Cardinality(InFlight) <= pool_size

\* C17, amended: the attempts that run in the pool, counted over all the
\* calls in progress, are never more than pool_size, each of them holds one
\* slot, and a caller that is about to spawn while pool_size of them are in
\* flight cannot go on; the attempt of a call on a proxy without remotes runs
\* in the caller, outside the pool, and is not counted.
C17_PoolBoundsPooledAttempts ==
    /\ Cardinality(PooledInFlight) <= pool_size
    /\ free = pool_size - Cardinality(PooledInFlight)
    /\ \A c \in active :
            pc[c] = "spawn" /\ Cardinality(PooledInFlight) = pool_size =>
                ~ENABLED Spawn(c)

\* A pool of one slot and two callers: the attempt of the first call on
\* self.local holds the slot, the first caller waits to spawn its remote
\* attempt and the second caller waits to spawn its first one.
C17_Witness ==
    /\ active = {1, 2} /\ pool_size = 1 /\ remote = 1
    /\ pc[1] = "spawn" /\ idx[1] = 1 /\ Running(1, 0)
    /\ pc[2] = "spawn" /\ idx[2] = 0
    /\ free = 0

----------------------------------------------------------------------------
\* C18: every replicated call comes to its end, a return or a raise, for
\* every pool_size from 1 on, also when it is smaller than the number of
\* connections, for every number of remotes and every retries from 1 on, one
\* caller or two: the callers never wait for ever on a slot of the pool, on
\* ret.wait() or on the pile.
C18_EveryCallEnds == <>(\A c \in active : Done(c))

\* A call with two remotes has ended on a pool of one slot, after it had to
\* wait for the slot for each of its two remote attempts.
C18_Witness ==
    /\ active = {1} /\ pool_size = 1 /\ remote = 2
    /\ Done(1) /\ Replicated(1)
    /\ spawned = 3
    /\ \A d \in Dest : Finished(1, d)

----------------------------------------------------------------------------
\* C19: two calls that share the pool of one proxy: when either has returned
\* or raised, what its caller got is the outcome of its own attempt on
\* self.local, drawn from its own tries there; its own remote attempts have
\* all ended; and on every connection its attempt counted only the
\* connectivity failures of its own tries, so TooManyRetries ends an attempt
\* only after retries failures of that call.
C19_CallsAreIsolated ==
    \A c \in active :
        active = {1, 2} /\ Done(c) /\ Replicated(c) =>
            /\ result[c] = task[c][0].out
            /\ result[c].kind = "value" => result[c] = Log(c, 0)[Len(Log(c, 0))]
            /\ result[c].kind = "RedisError" =>
                    Log(c, 0)[Len(Log(c, 0))].kind = "RedisError"
            /\ result[c].kind = "TooManyRetries" =>
                    AllConn(Log(c, 0)) /\ Len(Log(c, 0)) = retries
            /\ \A d \in Remotes : Finished(c, d)
            /\ \A d \in Dest :
                /\ task[c][d].i = ConnFailures(Log(c, d))
                /\ task[c][d].out.kind = "TooManyRetries" =>
                        ConnFailures(Log(c, d)) = retries

\* Two calls on a pool of one slot: the first returned True although its
\* remote attempt raised a RedisError, the second raised TooManyRetries of
\* self.local although its remote applied the operation.
C19_Witness ==
    /\ active = {1, 2} /\ pool_size = 1 /\ remote = 1 /\ retries = 2
    /\ Done(1) /\ result[1] = Value("True")
    /\ task[1][1].out.kind = "RedisError"
    /\ Done(2) /\ result[2] = Raise("TooManyRetries", Host(0))
    /\ task[2][1].out = Value("True")

----------------------------------------------------------------------------
\* C20: at every moment of a replicated call, every try made so far on every
\* connection, first tries and retries alike, was made with the operation of
\* the called method and with the argument list the caller gave.
C20_SameRequestOnEveryTry ==
    \A c \in active :
        Replicated(c) =>
            \A d \in Dest :
                /\ Len(sent[c][d]) = Len(Log(c, d))
                /\ \A i \in 1..Len(sent[c][d]) :
                    /\ sent[c][d][i].op = EverywhereOp(call[c].name)
                    /\ sent[c][d][i].args = OpArgs(EverywhereOp(call[c].name))
                    /\ sent[c][d][i].args = call[c].args

\* setex_everywhere('good', 10, 'value'): one try on self.local, two tries
\* on the first remote and three on the second, each of them
\* setex('good', 10, 'value').
C20_Witness ==
    /\ Done(1) /\ call[1].name = "setex_everywhere"
    /\ remote = 2 /\ retries = 3
    /\ Len(sent[1][0]) = 1 /\ Len(sent[1][1]) = 2 /\ Len(sent[1][2]) = 3
    /\ \A d \in Dest : \A i \in 1..Len(sent[1][d]) :
            sent[1][d][i] =
                [op |-> "setex", args |-> <<"good", "10", "value">>, cmds |-> <<>>]

====
